---- MODULE Spec2Model ----
(***************************************************************************)
(* Model of the Google Calendar credential manager of MCP_Agents:          *)
(* src/src/tools/google_calendar_tool.py, _get_google_calendar_service()   *)
(* (the specification's acquire_handle), run by several coroutines of one  *)
(* asyncio event loop.                                                     *)
(*                                                                         *)
(* Scheduling: a coroutine runs without interruption from one await to the *)
(* next, so each action below is the code between two suspension points:   *)
(* the lock acquisition (line 60) and the three run_in_executor awaits     *)
(* (refresh, line 87; consent flow, line 109; client build, line 134).     *)
(*                                                                         *)
(* Time: a credential record carries an absolute expiry; `now` is the      *)
(* clock.  google-auth reports a record as expired a safety margin before  *)
(* its real expiry, and the model takes the client build (the only await   *)
(* during which the call holds a record it has found valid) to complete    *)
(* within that margin: the clock does not advance while a caller is        *)
(* suspended in the build.  It advances freely everywhere else.            *)
(*                                                                         *)
(* add_google_calendar_event, the caller of the function in the program,   *)
(* is modelled from its call of _get_google_calendar_service to its return *)
(* (specification SpecEvent): the parsing of its start and end arguments,  *)
(* the event it builds and the insert call it awaits (line 283).           *)
(*                                                                         *)
(* Other specifications: SpecLive adds the fairness of the event loop;     *)
(* SpecLoop runs a Notion tool call (notion_tool.py) on the same event     *)
(* loop as the callers; SpecChat follows chat_endpoint of api_server.py.   *)
(***************************************************************************)
EXTENDS Integers, FiniteSets, Sequences, TLC

\* ------------------------------------------------------------------ bounds
NumCallers == 2      \* coroutines that call _get_google_calendar_service
MaxCalls == 2        \* calls issued in one behaviour
MaxTime == 2         \* last value of the clock
TokenLifetime == 1   \* ticks a freshly issued access token stays valid
MaxEvents == 1       \* invocations of add_google_calendar_event followed
MaxDay == 2          \* last day an argument of add_google_calendar_event names
NumRequests == 2     \* chat requests followed

Requests == 1..NumRequests

Callers == 1..NumCallers

\* Python's None, for an absent token, refresh token, expiry or object.
NONE == 0

\* ------------------------------------------------------------- exceptions
\* Exception classes that matter to the handlers of the function: "Error"
\* stands for every other subclass of Exception (RefreshError, HttpError,
\* json errors, ...).
IsInstance(e, cls) ==
    \/ cls = "Exception"
    \/ cls = e
    \/ cls = "OSError" /\ e = "FileNotFoundError"

\* What each failing operation raises.
ParseRaises == {"ValueError", "OSError"}
RefreshRaises == {"Error"}
RemoveRaises == {"OSError", "FileNotFoundError"}
FlowRunRaises == {"Error", "OSError"}
WriteRaises == {"OSError"}
BuildRaises == {"Error"}

\* The except clauses, by the line of the handler.
\* Faulty variant: the load is not guarded by a try.
ParseCaughtNever(e) == FALSE
ParseCaught(e) == IsInstance(e, "Exception")            \* line 75
RefreshCaught(e) == IsInstance(e, "Exception")          \* line 90
RemoveCaught(e) == IsInstance(e, "OSError")             \* line 96
FlowCaught(e) ==                                        \* lines 111, 114
    IsInstance(e, "FileNotFoundError") \/ IsInstance(e, "Exception")
\* Faulty variant: the write is not guarded by a try.
WriteCaughtNever(e) == FALSE
WriteCaught(e) == IsInstance(e, "OSError")              \* line 124 (IOError)
\* Faulty variant: the build's handler catches OSError only.
BuildCaughtNarrow(e) == IsInstance(e, "OSError")
BuildCaught(e) == IsInstance(e, "Exception")            \* line 139

\* service.events().insert(...).execute() (line 285) and its handlers.
InsertRaises == {"HttpError", "Error"}
InsertCaught(e) ==                                      \* lines 292, 296
    IsInstance(e, "HttpError") \/ IsInstance(e, "Exception")

\* ------------------------------------------------------ credential records
\* SCOPES (line 30): the permissions the application asks for.  A token
\* file written by another program can carry other ones.
SCOPES == "calendar"
OtherScopes == "other"

\* A google.oauth2 Credentials object, or NoCreds for Python's None.  The
\* expiry is a wall-clock time: `expiry` is its whole-second part, in ticks
\* of the clock, and `frac` tells whether it has a sub-second part.
NoCreds ==
    [kind |-> "none", token |-> NONE, refresh |-> NONE, expiry |-> NONE,
     frac |-> 0, scopes |-> "none"]
\* A record with the application's scopes and a whole-second expiry.
Creds(tok, ref, exp) ==
    [kind |-> "creds", token |-> tok, refresh |-> ref, expiry |-> exp,
     frac |-> 0, scopes |-> SCOPES]

\* creds.expired at time t: no expiry means never expired.
ExpiredAt(cr, t) == cr.expiry # NONE /\ t >= cr.expiry
\* creds.valid at time t: a token that is not expired.
ValidAt(cr, t) == cr.kind = "creds" /\ cr.token # NONE /\ ~ExpiredAt(cr, t)

\* The token file: absent, unparseable, or a serialized record.
AbsentFile ==
    [kind |-> "absent", token |-> NONE, refresh |-> NONE, expiry |-> NONE,
     frac |-> 0, scopes |-> "none"]
GarbageFile ==
    [kind |-> "garbage", token |-> NONE, refresh |-> NONE, expiry |-> NONE,
     frac |-> 0, scopes |-> "none"]
\* Faulty variant: the refresh token is left out of the file.
to_json_no_refresh(cr) ==
    [kind |-> "record", token |-> cr.token, refresh |-> NONE,
     expiry |-> cr.expiry, frac |-> cr.frac, scopes |-> cr.scopes]
\* creds.to_json(), as written to the token file (line 122): the tokens, the
\* scopes, and the expiry in ISO format with its sub-second part.
to_json(cr) ==
    [kind |-> "record", token |-> cr.token, refresh |-> cr.refresh,
     expiry |-> cr.expiry, frac |-> cr.frac, scopes |-> cr.scopes]
\* Credentials.from_authorized_user_file(token_path, SCOPES) (line 73) on a
\* parseable file: the tokens of the file; the scopes are the SCOPES passed
\* in, not the file's; the expiry is read up to the second, the sub-second
\* part of the stored string is dropped.
from_authorized_user_file(f) == Creds(f.token, f.refresh, f.expiry)

\* An authorized client (googleapiclient Resource): an object identity and
\* the credentials it was built with.
NoHandle == [id |-> NONE, creds |-> NoCreds]
Handle(i, cr) == [id |-> i, creds |-> cr]

\* --------------------------------------------------------- dates and times
\* The date and time strings add_google_calendar_event is called with: a
\* date (YYYY-MM-DD), a datetime without UTC offset, a datetime with one, a
\* string in no ISO format, and NoString for an omitted (None or empty) end.
HoursPerDay == 24
Days == 1..MaxDay
Hours == {HoursPerDay - 1}
Offsets == {1}

NoString == [kind |-> "none", day |-> 0, hour |-> 0, off |-> 0]
GarbageString == [kind |-> "garbage", day |-> 0, hour |-> 0, off |-> 0]
DateString(d) == [kind |-> "date", day |-> d, hour |-> 0, off |-> 0]
NaiveString(d, h) == [kind |-> "naive", day |-> d, hour |-> h, off |-> 0]
AwareString(d, h, o) == [kind |-> "aware", day |-> d, hour |-> h, off |-> o]

StartStrings ==
    {GarbageString}
    \cup {DateString(d) : d \in Days}
    \cup {NaiveString(d, h) : d \in Days, h \in Hours}
    \cup {AwareString(d, h, o) : d \in Days, h \in Hours, o \in Offsets}
EndStrings == StartStrings \cup {NoString}

\* datetime and date objects: t counts hours (datetime, local time) or days
\* (date); an aware datetime carries its UTC offset.  NoValue is None.
NoValue == [kind |-> "none", aware |-> FALSE, t |-> 0, off |-> 0]
ValueError == [kind |-> "ValueError", aware |-> FALSE, t |-> 0, off |-> 0]
DateTime(a, t, o) == [kind |-> "datetime", aware |-> a, t |-> t, off |-> o]
Date(d) == [kind |-> "date", aware |-> FALSE, t |-> d, off |-> 0]

\* datetime.fromisoformat (line 165): a date string is accepted too and
\* gives the datetime of that day's midnight.
datetime_fromisoformat(str) ==
    CASE str.kind = "date" -> DateTime(FALSE, str.day * HoursPerDay, 0)
      [] str.kind = "naive" ->
            DateTime(FALSE, str.day * HoursPerDay + str.hour, 0)
      [] str.kind = "aware" ->
            DateTime(TRUE, str.day * HoursPerDay + str.hour, str.off)
      [] OTHER -> ValueError

\* date.fromisoformat (line 170).
date_fromisoformat(str) ==
    IF str.kind = "date" THEN Date(str.day) ELSE ValueError

\* Faulty variant: a string in no ISO format is taken for the epoch.
parse_datetime_lenient(str) ==
    IF datetime_fromisoformat(str) # ValueError
    THEN <<datetime_fromisoformat(str), NoValue, TRUE>>
    ELSE <<DateTime(FALSE, 0, 0), NoValue, TRUE>>
\* _parse_datetime (lines 149-174): <<datetime, date, parsed>>.
parse_datetime(str) ==
    IF datetime_fromisoformat(str) # ValueError
    THEN <<datetime_fromisoformat(str), NoValue, TRUE>>
    ELSE IF date_fromisoformat(str) # ValueError
    THEN <<NoValue, date_fromisoformat(str), TRUE>>
    ELSE <<NoValue, NoValue, FALSE>>

\* datetime.isoformat() and date.isoformat() (lines 228, 251, 256, 272).
isoformat(v) ==
    IF v.kind = "date"
    THEN DateString(v.t)
    ELSE IF v.aware
    THEN AwareString(v.t \div HoursPerDay, v.t % HoursPerDay, v.off)
    ELSE NaiveString(v.t \div HoursPerDay, v.t % HoursPerDay)

\* Faulty variant: the hour is not added.
PlusHoursNone(v, n) == v
\* v + timedelta(hours=n) and v + timedelta(days=n).
PlusHours(v, n) == [v EXCEPT !.t = @ + n]
PlusDays(v, n) == [v EXCEPT !.t = @ + n]

\* a > b on datetimes (line 264) raises TypeError when one has a UTC offset
\* and the other has none; two aware datetimes compare as instants.
Comparable(a, b) == a.aware = b.aware
After(a, b) == a.t - a.off > b.t - b.off

\* The event sent to the API: each of start and end is a 'date' or a
\* 'dateTime' with the configured time zone.
NoField == [key |-> "none", value |-> NoString, timeZone |-> "none"]
DateField(v) == [key |-> "date", value |-> isoformat(v), timeZone |-> "none"]
DateTimeField(v) ==
    [key |-> "dateTime", value |-> isoformat(v),
     timeZone |-> "CALENDAR_TIMEZONE"]
NoBody == [start |-> NoField, end |-> NoField]

\* Lines 210-275 of add_google_calendar_event on a start and an end string:
\* the event to insert, or the invalid-format error of line 212, or the
\* TypeError of line 264.
PrepareEvent(start_str, end_str) ==
    LET ps == parse_datetime(start_str)
        start_dt == ps[1]
        start_date == ps[2]
        is_all_day == start_date # NoValue
        pe == parse_datetime(end_str)
    IN  IF ~ps[3]
        THEN [outcome |-> "format_error", event |-> NoBody]
        ELSE IF is_all_day
        THEN LET end_date ==
                    IF end_str # NoString /\ pe[3] /\ pe[2] # NoValue
                       /\ pe[2].t >= start_date.t
                    THEN PlusDays(pe[2], 1)
                    ELSE PlusDays(start_date, 1)
             IN  [outcome |-> "event",
                  event |-> [start |-> DateField(start_date),
                             end |-> DateField(end_date)]]
        ELSE IF end_str # NoString /\ pe[3] /\ pe[1] # NoValue
        THEN IF ~Comparable(pe[1], start_dt)
             THEN [outcome |-> "TypeError", event |-> NoBody]
             ELSE [outcome |-> "event",
                   event |-> [start |-> DateTimeField(start_dt),
                              end |-> DateTimeField(
                                  IF After(pe[1], start_dt)
                                  THEN pe[1]
                                  ELSE PlusHours(start_dt, 1))]]
        ELSE [outcome |-> "event",
              event |-> [start |-> DateTimeField(start_dt),
                         end |-> DateTimeField(PlusHours(start_dt, 1))]]

\* ------------------------------------------------------------------- state
VARIABLES
    now,             \* the clock
    secret,          \* the client secret file, see SecretStates
    tokenFile,       \* content of the token file
    google_service,  \* _google_service, the cached client (line 31)
    service_lock,    \* _service_lock is held (line 32)
    pc,              \* where each caller is
    creds,           \* each caller's local `creds`
    last,            \* the call that returned last: its result and history
    calls,           \* calls issued so far
    trace,           \* what each caller's current call has done (history)
    tool,            \* each caller's invocation of add_google_calendar_event
    lastEvent,       \* the invocation of add_google_calendar_event that
                     \* returned last: its arguments, result and history
    notion,          \* a Notion tool call running on the same event loop
    llm,             \* api_server.llm, the language model (line 40)
    chat             \* each chat request: where chat_endpoint is, its locals
                     \* and history

vars == <<now, secret, tokenFile, google_service, service_lock, pc, creds,
          last, calls, trace, tool, lastEvent, notion, llm, chat>>

\* The state of the other coroutines of the process (notion_tool.py,
\* api_server.py), which the calendar tool does not touch.
others == <<notion, llm, chat>>

\* The client secret file of the deployment: its path is not configured; the
\* path is set and no file is there; a file is there that is no client
\* secret descriptor; a proper descriptor is there.
SecretStates == {"unconfigured", "missing", "malformed", "present"}

\* A caller is "idle" (outside the function), "waiting" (at line 60) or
\* suspended in one of the three awaits, holding the lock.
InSection == {"refreshing", "authorizing", "building"}
InFlight == {"waiting"} \cup InSection

NoTrace ==
    [callNo |-> 0, peers |-> {}, noCacheAtCall |-> FALSE, entered |-> FALSE,
     entryCache |-> NoHandle, entryFile |-> AbsentFile, entryValid |-> FALSE,
     fs |-> FALSE, refreshes |-> 0, flows |-> 0, builds |-> 0,
     refreshed |-> NoCreds, refreshFailed |-> FALSE, removeFailed |-> FALSE,
     flowTried |-> FALSE, flowFile |-> "n/a", fresh |-> NoCreds, writeTried |-> FALSE,
     writeFailed |-> FALSE, buildFailed |-> FALSE]

\* No call has returned yet.
NoLast == [ret |-> NoHandle, exc |-> "none", trace |-> NoTrace]

\* An invocation of add_google_calendar_event: not running ("none"),
\* awaiting _get_google_calendar_service ("auth", line 206) or awaiting the
\* insert call ("inserting", line 283).  `service` is the local variable,
\* `acquired` what line 206 returned, `no` the number of that call.
NoTool ==
    [phase |-> "none", no |-> 0, service |-> NoHandle, acquired |-> NoHandle,
     start |-> NoString, end |-> NoString, event |-> NoBody]

\* No invocation of add_google_calendar_event has ended yet.  `result` is
\* the returned string, `exc` the exception that left the function.
\* `parsed` tells whether the start argument is a date or a datetime.
NoEvent ==
    [no |-> 0, auth |-> FALSE, parsed |-> FALSE, inserts |-> 0,
     result |-> "none", exc |-> "none"]

\* A call of update_task_status (notion_tool.py): outside the function
\* ("idle") or suspended in notion.pages.update (line 103); the string its
\* last call returned; and whether _service_lock was held by a suspended
\* caller both when that call started and when it returned.
NoNotion == [pc |-> "idle", result |-> "none", held |-> FALSE]

\* A chat request that has not arrived.  pc is the await chat_endpoint is
\* suspended in; body, loaded and agent are what the request sent, what the
\* tool loading gave and how the agent run ended; invoked and cleanups
\* count the calls of ainvoke and of cleanup_func; status is the HTTP status
\* of the response, 0 before it.
NoChat ==
    [pc |-> "none", body |-> "none", loaded |-> "none", tools |-> 0,
     cleanup_func |-> NONE, agent |-> "none", invoked |-> 0, cleanups |-> 0,
     status |-> 0]

\* The token files a deployment can start with, at time 1: none, an
\* unparseable one, records with a token that is expired or not, with and
\* without refresh token, and a record with a refresh token only.  The
\* expired record with a refresh token is one that another program wrote,
\* with other scopes.
InitialFiles ==
    {AbsentFile, GarbageFile}
    \cup {to_json(Creds(1, NONE, e)) : e \in {1, 1 + TokenLifetime}}
    \cup {to_json(Creds(1, 1, 1 + TokenLifetime))}
    \cup {[to_json(Creds(1, 1, 1)) EXCEPT !.scopes = OtherScopes]}
    \cup {to_json(Creds(NONE, 1, NONE))}

Init ==
    /\ now = 1
    /\ secret \in SecretStates
    /\ tokenFile \in InitialFiles
    /\ google_service = NoHandle
    /\ service_lock = FALSE
    /\ pc = [c \in Callers |-> "idle"]
    /\ creds = [c \in Callers |-> NoCreds]
    /\ last = NoLast
    /\ calls = 0
    /\ trace = [c \in Callers |-> NoTrace]
    /\ tool = [c \in Callers |-> NoTool]
    /\ lastEvent = NoEvent
    /\ notion = NoNotion
    /\ llm = "model"
    /\ chat = [r \in Requests |-> NoChat]

\* ----------------------------------------------------------------- helpers
\* _get_client_secret_path() (lines 41-46): None when not configured.
ClientSecretPath == IF secret = "unconfigured" THEN "None" ELSE "path"
\* Faulty variant: the check of line 65 is missing.
SecretFoundUnchecked == TRUE
\* Line 65 negated: the path is set and os.path.exists(secret_path).
SecretFound ==
    ClientSecretPath # "None" /\ secret \in {"malformed", "present"}

\* InstalledAppFlow.from_client_secrets_file(secret_path, SCOPES) (line 105):
\* the flow object, or the error a malformed descriptor raises.
FlowCtor == IF secret = "malformed" THEN "ValueError" ELSE "ok"

\* Faulty variant: the body is not guarded by the lock.
LockFreeAlways == TRUE
\* asyncio.Lock: `async with _service_lock` proceeds only when it is free.
LockFree == ~service_lock

\* Faulty variant: line 82 without the test of the refresh token.
NeedsRefreshAnyRecord(cr) == cr # NoCreds /\ ExpiredAt(cr, now)
\* Line 82: creds and creds.expired and creds.refresh_token.
NeedsRefresh(cr) ==
    cr # NoCreds /\ ExpiredAt(cr, now) /\ cr.refresh # NONE

\* Faulty variant: line 80 with the validity test inverted.
MissingOrInvalidInverted(cr) == cr = NoCreds \/ ValidAt(cr, now)
\* Line 80: not creds or not creds.valid.
MissingOrInvalid(cr) == cr = NoCreds \/ ~ValidAt(cr, now)

\* Faulty variant: line 130 without the validity test.
UsableCredsUnchecked(cr) == cr # NoCreds
\* Line 130: creds and creds.valid.
UsableCreds(cr) == cr # NoCreds /\ ValidAt(cr, now)

\* Faulty variant: the stale file is not removed.
RemovedKept(f) == f
\* os.remove(token_path) succeeding (line 94), on the file's content.
Removed(f) == AbsentFile

\* Faulty variant: the new access token is not stored in the record.
RefreshedNotInPlace(cr, tok, exp) == [cr EXCEPT !.expiry = exp]
\* creds.refresh(Request()) succeeding (line 87): the record is updated in
\* place with the new access token and expiry; the refresh token stays (the
\* provider returning a rotated refresh token is not modelled).
Refreshed(cr, tok, exp) == [cr EXCEPT !.token = tok, !.expiry = exp]

\* The access token a call obtains is a new one: the token file starts with
\* token 1, and the call numbered k is issued token k + 1.
FreshToken(c) == trace[c].callNo + 1

\* What flow.run_local_server returns (line 109): a new grant.
Granted(tok, exp) == Creds(tok, tok, exp)

\* The expiry of a token just issued (lines 87, 109) is the wall-clock time
\* of the response plus the token's lifetime, to the microsecond: u is its
\* sub-second part.  The model issues every token off a whole second (the
\* case of all responses but one in a million).
SubSeconds == {1}
Issued(cr, u) == [cr EXCEPT !.frac = u]

\* Faulty variant: line 207 is missing.
ServiceMissingUnchecked(r) == FALSE
\* Line 207: not service.
ServiceMissing(r) == r = NoHandle

\* add_google_calendar_event returns or raises.
EndEvent(c, no, auth, start_str, n, res, e) ==
    /\ tool' = [tool EXCEPT ![c] = NoTool]
    /\ lastEvent' = [no |-> no, auth |-> auth,
                     parsed |-> parse_datetime(start_str)[3],
                     inserts |-> n, result |-> res, exc |-> e]

\* Lines 206-283 of add_google_calendar_event, from the return of
\* _get_google_calendar_service (result r, or exception e) to the await of
\* the insert call; start_str and end_str are the arguments of the
\* invocation, read here for the first time.
AfterAcquire(c, no, r, e) ==
    \E start_str \in StartStrings :
        IF e # "none"
        THEN EndEvent(c, no, FALSE, start_str, 0, "none", e)
        ELSE IF ServiceMissing(r)
        THEN EndEvent(c, no, r # NoHandle, start_str, 0, "auth_error", "none")
        ELSE \E end_str \in EndStrings :
            LET prep == PrepareEvent(start_str, end_str)
            IN  CASE prep.outcome = "format_error" ->
                        EndEvent(c, no, r # NoHandle, start_str, 0,
                                 "format_error", "none")
                  [] prep.outcome = "TypeError" ->
                        EndEvent(c, no, r # NoHandle, start_str, 0,
                                 "none", "TypeError")
                  [] OTHER ->
                        /\ tool' = [tool EXCEPT ![c] =
                                       [phase |-> "inserting", no |-> no,
                                        service |-> r, acquired |-> r,
                                        start |-> start_str, end |-> end_str,
                                        event |-> prep.event]]
                        /\ UNCHANGED lastEvent

\* All the assignments of one step of caller c.
Step(c, p, cr, r, e, lock, cache, f, tr) ==
    /\ IF p = "idle" /\ tool[c].phase = "auth"
       THEN AfterAcquire(c, tr.callNo, r, e)
       ELSE UNCHANGED <<tool, lastEvent>>
    /\ pc' = [pc EXCEPT ![c] = p]
    /\ creds' = [creds EXCEPT ![c] = cr]
    /\ last' = IF p = "idle"
               THEN [ret |-> r, exc |-> e, trace |-> tr]
               ELSE last
    /\ service_lock' = lock
    /\ google_service' = cache
    /\ tokenFile' = f
    /\ trace' = [trace EXCEPT ![c] = IF p = "idle" THEN NoTrace ELSE tr]
    /\ UNCHANGED <<now, secret, calls, others>>

\* Faulty variant: the lock is still held after `return None`.
ReturnNoneLocked(c, cache, f, tr) ==
    Step(c, "idle", NoCreds, NoHandle, "none", TRUE, cache, f, tr)
\* `return None` inside the `async with`: the lock is released on the way out.
ReturnNone(c, cache, f, tr) ==
    Step(c, "idle", NoCreds, NoHandle, "none", FALSE, cache, f, tr)

\* An exception no handler catches leaves the function; `async with`
\* releases the lock.
Raise(c, e, f, tr) ==
    Step(c, "idle", NoCreds, NoHandle, e, FALSE, google_service, f, tr)

\* The coroutine suspends in run_in_executor, holding the lock.
Suspend(c, p, cr, f, tr) ==
    Step(c, p, cr, NoHandle, "none", TRUE, google_service, f, tr)

\* Faulty variant: the record in use is written back before every build.
CheckAndBuildSaving(c, cr, f, tr) ==
    IF UsableCreds(cr)
    THEN Suspend(c, "building", cr, to_json(cr), tr)
    ELSE ReturnNone(c, NoHandle, f, tr)
\* Faulty variant: line 145 is missing, the cache survives an invalid record.
CheckAndBuildKeepCache(c, cr, f, tr) ==
    IF UsableCreds(cr)
    THEN Suspend(c, "building", cr, f, tr)
    ELSE ReturnNone(c, google_service, f, tr)
\* Lines 129-146 up to the await: build when the record is valid, else clear
\* the cache and return None.
CheckAndBuild(c, cr, f, tr) ==
    IF UsableCreds(cr)
    THEN Suspend(c, "building", cr, f, tr)
    ELSE ReturnNone(c, NoHandle, f, tr)

\* Faulty variant: the fresh record is not written before the build.
SaveSkipped(c, cr, f, tr) == CheckAndBuild(c, cr, f, tr)
\* Lines 118-126, then lines 129-146: write the fresh record, go on whatever
\* the outcome.  open(path, 'w') truncates the file before write() runs, so
\* a failed write leaves the old file ("open") or an empty one ("write").
SaveAndFinish(c, cr, f, tr) ==
    \E w \in {"ok", "open", "write"}, e \in WriteRaises :
        LET f2 == CASE w = "ok" -> to_json(cr)
                    [] w = "open" -> f
                    [] OTHER -> GarbageFile
            tr2 == [tr EXCEPT !.writeTried = TRUE, !.writeFailed = (w # "ok")]
        IN  IF w # "ok" /\ ~WriteCaught(e)
            THEN Raise(c, e, f2, tr2)
            ELSE CheckAndBuild(c, cr, f2, tr2)

\* Lines 102-116 up to the await: build the flow from the client secret file
\* and start the consent flow in the executor.
StartFlow(c, f, tr) ==
    LET tr2 == [tr EXCEPT !.flowTried = TRUE]
    IN  IF FlowCtor = "ok"
        THEN Suspend(c, "authorizing", NoCreds, f,
                     [tr2 EXCEPT !.flows = @ + 1, !.flowFile = f.kind])
        ELSE IF FlowCaught(FlowCtor)
        THEN ReturnNone(c, google_service, f, tr2)
        ELSE Raise(c, FlowCtor, f, tr2)

\* Faulty variant: a failed refresh ends the call with the failure result.
GiveUpAfterRefreshFailure(c, f, tr) == ReturnNone(c, google_service, f, tr)
\* Faulty variant: a failed refresh is tried once more before the flow.
RetryRefresh(c, f, tr) ==
    IF tr.refreshes < 2
    THEN Suspend(c, "refreshing", creds[c], f, [tr EXCEPT !.refreshes = @ + 1])
    ELSE StartFlow(c, f, tr)
\* Lines 98-102 after a failed refresh: creds = None, needs_auth = True, and
\* on to the consent flow.
AfterRefreshFailure(c, f, tr) == StartFlow(c, f, tr)

\* ----------------------------------------------------------------- actions
\* A coroutine calls _get_google_calendar_service() and reaches line 60.
CallService(c) ==
    /\ pc[c] = "idle"
    /\ calls < MaxCalls
    /\ calls' = calls + 1
    /\ pc' = [pc EXCEPT ![c] = "waiting"]
    /\ trace' = [trace EXCEPT ![c] =
                    [NoTrace EXCEPT
                        !.callNo = calls + 1,
                        !.peers = {trace[d].callNo :
                                     d \in {x \in Callers : pc[x] \in InFlight}},
                        !.noCacheAtCall = (google_service = NoHandle)]]
    /\ UNCHANGED <<now, secret, tokenFile, google_service, service_lock,
                   creds, last, others>>

\* A coroutine other than add_google_calendar_event makes the call.
Call(c) ==
    /\ tool[c].phase = "none"
    /\ CallService(c)
    /\ UNCHANGED <<tool, lastEvent>>

\* add_google_calendar_event is invoked and calls
\* _get_google_calendar_service (lines 204-206).  The invocations followed
\* are made one after the other by the first coroutine: concurrent calls of
\* _get_google_calendar_service are the matter of Spec.
AddEvent(c) ==
    /\ \A d \in Callers : tool[d].phase = "none" /\ d >= c
    /\ calls < MaxEvents
    /\ CallService(c)
    /\ tool' = [tool EXCEPT ![c] = [NoTool EXCEPT !.phase = "auth"]]
    /\ UNCHANGED lastEvent

\* Lines 60-116 up to the first await: take the lock, check the client
\* secret, load the token file, choose between build, refresh and flow.
Enter(c) ==
    /\ pc[c] = "waiting"
    /\ LockFree
    /\ LET tr == [trace[c] EXCEPT
                    !.entered = TRUE,
                    !.entryCache =
                        IF ValidAt(google_service.creds, now)
                        THEN google_service ELSE NoHandle,
                    !.entryFile = tokenFile,
                    !.entryValid =
                        (tokenFile.kind = "record"
                         /\ ValidAt(from_authorized_user_file(tokenFile), now)),
                    !.fs = (ClientSecretPath # "None")]
       IN  IF ~SecretFound
           THEN ReturnNone(c, google_service, tokenFile, tr)
           ELSE \E e \in ParseRaises :
                IF tokenFile.kind = "garbage" /\ ~ParseCaught(e)
                THEN Raise(c, e, tokenFile, tr)
                ELSE LET loaded ==
                            IF tokenFile.kind = "record"
                            THEN from_authorized_user_file(tokenFile)
                            ELSE NoCreds
                     IN  IF MissingOrInvalid(loaded)
                         THEN IF NeedsRefresh(loaded)
                              THEN Suspend(c, "refreshing", loaded, tokenFile,
                                           [tr EXCEPT !.refreshes = @ + 1])
                              ELSE StartFlow(c, tokenFile, tr)
                         ELSE CheckAndBuild(c, loaded, tokenFile, tr)

\* Lines 87-99 after the await, then lines 102-146 up to the next await.
\* "short" is a refresh whose new token is already past its expiry.
RefreshDone(c) ==
    /\ pc[c] = "refreshing"
    /\ \E o \in {"ok", "short"} \cup RefreshRaises, u \in SubSeconds :
        IF o \in {"ok", "short"}
        THEN LET cr == Issued(Refreshed(creds[c], FreshToken(c),
                                IF o = "ok" THEN now + TokenLifetime ELSE now),
                              u)
             IN  SaveAndFinish(c, cr, tokenFile,
                               [trace[c] EXCEPT !.refreshed = cr, !.fresh = cr])
        ELSE IF ~RefreshCaught(o)
        THEN Raise(c, o, tokenFile, trace[c])
        ELSE \E rm \in {"ok"} \cup RemoveRaises :
                LET tr == [trace[c] EXCEPT !.refreshFailed = TRUE,
                                           !.removeFailed = (rm # "ok")]
                IN  IF rm = "ok"
                    THEN AfterRefreshFailure(c, Removed(tokenFile), tr)
                    ELSE IF RemoveCaught(rm)
                    THEN AfterRefreshFailure(c, tokenFile, tr)
                    ELSE Raise(c, rm, tokenFile, tr)

\* Lines 109-116 after the await, then lines 118-146 up to the next await.
AuthorizeDone(c) ==
    /\ pc[c] = "authorizing"
    /\ \E o \in {"ok", "short"} \cup FlowRunRaises, u \in SubSeconds :
        IF o \in {"ok", "short"}
        THEN LET cr == Issued(Granted(FreshToken(c),
                                IF o = "ok" THEN now + TokenLifetime ELSE now),
                              u)
             IN  SaveAndFinish(c, cr, tokenFile, [trace[c] EXCEPT !.fresh = cr])
        ELSE IF FlowCaught(o)
        THEN ReturnNone(c, google_service, tokenFile, trace[c])
        ELSE Raise(c, o, tokenFile, trace[c])

\* Lines 134-142 after the await: cache and return the client, or clear the
\* cache and return None.
BuildDone(c) ==
    /\ pc[c] = "building"
    /\ \E o \in {"ok"} \cup BuildRaises :
        IF o = "ok"
        THEN Step(c, "idle", NoCreds, Handle(trace[c].callNo, creds[c]), "none",
                  FALSE, Handle(trace[c].callNo, creds[c]), tokenFile,
                  [trace[c] EXCEPT !.builds = @ + 1])
        ELSE IF BuildCaught(o)
        THEN ReturnNone(c, NoHandle, tokenFile,
                        [trace[c] EXCEPT !.builds = @ + 1,
                                         !.buildFailed = TRUE])
        ELSE Raise(c, o, tokenFile,
                   [trace[c] EXCEPT !.builds = @ + 1, !.buildFailed = TRUE])

\* Time passes (never while a caller is suspended in the client build).
Tick ==
    /\ now < MaxTime
    /\ \A c \in Callers : pc[c] # "building"
    /\ now' = now + 1
    /\ UNCHANGED <<secret, tokenFile, google_service, service_lock, pc, creds,
                   last, calls, trace, tool, lastEvent, others>>

\* Lines 283-298 after the await of the insert call: the confirmation, or
\* the error string of the handler that caught the exception.
InsertDone(c) ==
    /\ tool[c].phase = "inserting"
    /\ \E o \in {"ok"} \cup InsertRaises :
        LET res == CASE o = "ok" -> "created"
                     [] IsInstance(o, "HttpError") -> "api_error"
                     [] OTHER -> "unexpected_error"
        IN  IF o = "ok" \/ InsertCaught(o)
            THEN EndEvent(c, tool[c].no, TRUE, tool[c].start, 1, res, "none")
            ELSE EndEvent(c, tool[c].no, TRUE, tool[c].start, 1, "none", o)
    /\ UNCHANGED <<now, secret, tokenFile, google_service, service_lock, pc,
                   creds, last, calls, trace, others>>

Next ==
    \/ \E c \in Callers : Call(c)
    \/ \E c \in Callers : Enter(c)
    \/ \E c \in Callers : RefreshDone(c)
    \/ \E c \in Callers : AuthorizeDone(c)
    \/ \E c \in Callers : BuildDone(c)
    \/ Tick

Spec == Init /\ [][Next]_vars

\* Faulty variant: refresh, flow and build are called on the event loop's
\* own thread.
OffLoadedNever(p) == FALSE
\* The operation a caller at p is suspended in runs on an executor thread:
\* `await loop.run_in_executor(...)` at lines 87, 109 and 134.
OffLoaded(p) == p \in {"refreshing", "authorizing", "building"}

\* The event loop's thread is free to run a coroutine that is ready: no
\* caller is in the middle of an operation that runs on that thread.
LoopFree == \A c \in Callers : pc[c] \in InSection => OffLoaded(pc[c])

\* update_task_status is called and suspends in notion.pages.update
\* (notion_tool.py, lines 87-103; the Notion client is configured).
NotionCall ==
    /\ notion.pc = "idle"
    /\ LoopFree
    /\ notion' = [pc |-> "updating", result |-> "none", held |-> service_lock]
    /\ UNCHANGED <<now, secret, tokenFile, google_service, service_lock, pc,
                   creds, last, calls, trace, tool, lastEvent, llm, chat>>

\* notion.pages.update completes and update_task_status returns its
\* string (notion_tool.py, lines 103-107).
NotionDone ==
    /\ notion.pc = "updating"
    /\ LoopFree
    /\ \E o \in {"updated", "failed"} :
        notion' = [pc |-> "idle", result |-> o,
                   held |-> notion.held /\ service_lock]
    /\ UNCHANGED <<now, secret, tokenFile, google_service, service_lock, pc,
                   creds, last, calls, trace, tool, lastEvent, llm, chat>>

\* The calendar callers together with a Notion tool call on the same event
\* loop (main.py runs both servers in one loop), for a deployment with its
\* client secret file and a token file that is absent or to be refreshed.
\* The clock stands still: what is followed is the order of the steps.
InitLoop ==
    /\ Init
    /\ secret = "present"
    /\ tokenFile \in {AbsentFile,
                       [to_json(Creds(1, 1, 1)) EXCEPT !.scopes = OtherScopes]}

NextLoop ==
    \/ \E c \in Callers : Call(c)
    \/ \E c \in Callers : Enter(c)
    \/ \E c \in Callers : RefreshDone(c)
    \/ \E c \in Callers : AuthorizeDone(c)
    \/ \E c \in Callers : BuildDone(c)
    \/ NotionCall
    \/ NotionDone

SpecLoop == InitLoop /\ [][NextLoop]_vars

\* ------------------------------------------------------- the chat endpoint
\* chat_endpoint of api_server.py (lines 66-169).  The bodies a request can
\* carry: not JSON; JSON that is no object; an object without "query", or
\* whose "query" is the empty string, blank, or no string; a proper query.
Bodies == {"not_json", "not_dict", "no_query", "empty", "blank", "not_str",
           "ok"}

\* `await request.json()` (line 86) raises on a body that is not JSON, and
\* data.get (line 87) raises AttributeError on JSON that is no object.
BodyRaises(body) == body \in {"not_json", "not_dict"}
\* data.get("query") (line 87).
QueryOf(body) ==
    CASE body = "no_query" -> "None"
      [] body = "empty" -> "empty"
      [] body = "blank" -> "blank"
      [] body = "not_str" -> "number"
      [] OTHER -> "text"
\* Line 88: not query or not isinstance(query, str) or not query.strip().
QueryRejected(query) ==
    \/ query \in {"None", "empty"}
    \/ query = "number"
    \/ query = "blank"

\* Faulty variant: the function returns without the cleanup of lines 162-169.
HasCleanupNever(cleanup_func) == FALSE
\* Lines 122 and 164: `if cleanup_func`.
HasCleanup(cleanup_func) == cleanup_func # NONE

\* The HTTP status of the response to an agent run (lines 156, 160).
AgentStatus(agent) == IF agent = "ok" THEN 200 ELSE 500

\* chat_endpoint returns its response.
Respond(r, q, st) ==
    /\ chat' = [chat EXCEPT ![r] = [q EXCEPT !.pc = "done", !.status = st]]
    /\ UNCHANGED <<now, secret, tokenFile, google_service, service_lock, pc,
                   creds, last, calls, trace, tool, lastEvent, notion, llm>>

\* chat_endpoint suspends in an await.
Await(r, q, p) ==
    /\ chat' = [chat EXCEPT ![r] = [q EXCEPT !.pc = p]]
    /\ UNCHANGED <<now, secret, tokenFile, google_service, service_lock, pc,
                   creds, last, calls, trace, tool, lastEvent, notion, llm>>

\* The finally clause of lines 162-169, entered with the response of the try
\* or of the except clause pending: await the cleanup function when there
\* is one, then return the response.
Finally(r, q) ==
    IF HasCleanup(q.cleanup_func)
    THEN Await(r, [q EXCEPT !.cleanups = @ + 1], "cleanup")
    ELSE Respond(r, q, AgentStatus(q.agent))

\* Lines 80-86: a request arrives; 503 when the model is not initialised,
\* else the body is awaited.
ChatReceive(r) ==
    /\ chat[r].pc = "none"
    /\ IF llm = "None"
       THEN Respond(r, chat[r], 503)
       ELSE Await(r, chat[r], "json")

\* Lines 86-110 after the await of the body: 400 for a body the try of
\* lines 85-95 rejects, else the tools are awaited with tools = [] and
\* cleanup_func = None.
JsonDone(r) ==
    /\ chat[r].pc = "json"
    /\ \E body \in Bodies :
        LET q == [chat[r] EXCEPT !.body = body]
        IN  IF BodyRaises(body) \/ QueryRejected(QueryOf(body))
            THEN Respond(r, q, 400)
            ELSE Await(r, [q EXCEPT !.tools = 0, !.cleanup_func = NONE],
                       "loading")

\* Lines 110-136 after the await of convert_mcp_to_langchain_tools.  When it
\* raises, line 110 assigns nothing, cleanup_func is still None in the
\* handler and the response is 503.  When it returns n tools and a cleanup
\* function (or none), the agent is created and invoked; create_react_agent
\* raising is caught at line 158.
LoadDone(r) ==
    /\ chat[r].pc = "loading"
    /\ \E o \in {"ok", "raises"}, n \in {0, 1}, cf \in {NONE, 1},
          a \in {"ok", "create_raises"} :
        IF o = "raises"
        THEN LET q == [chat[r] EXCEPT !.loaded = "raises"]
             IN  IF HasCleanup(q.cleanup_func)
                 THEN Await(r, [q EXCEPT !.cleanups = @ + 1], "cleanup_failed")
                 ELSE Respond(r, q, 503)
        ELSE LET q == [chat[r] EXCEPT !.loaded = "ok", !.tools = n,
                                      !.cleanup_func = cf]
             IN  IF a = "create_raises"
                 THEN Finally(r, [q EXCEPT !.agent = a])
                 ELSE Await(r, [q EXCEPT !.invoked = @ + 1], "invoking")

\* Lines 136-169 after the await of agent_executor.ainvoke: the response is
\* 200 with the answer, or 500 when the agent raised; then the finally.
AgentDone(r) ==
    /\ chat[r].pc = "invoking"
    /\ \E o \in {"ok", "raises"} :
        Finally(r, [chat[r] EXCEPT !.agent = o])

\* Lines 166-169 after the await of cleanup_func: its exception, if any, is
\* logged, and the pending response is returned.
CleanupDone(r) ==
    /\ chat[r].pc = "cleanup"
    /\ \E o \in {"ok", "raises"} :
        Respond(r, chat[r], AgentStatus(chat[r].agent))

\* The API server after its import: the model is initialised or, without
\* API key or when its constructor raised, None (lines 40-53).  The
\* calendar tool is not followed.
InitChat ==
    /\ now = 1
    /\ secret = "present"
    /\ tokenFile = AbsentFile
    /\ google_service = NoHandle
    /\ service_lock = FALSE
    /\ pc = [c \in Callers |-> "idle"]
    /\ creds = [c \in Callers |-> NoCreds]
    /\ last = NoLast
    /\ calls = 0
    /\ trace = [c \in Callers |-> NoTrace]
    /\ tool = [c \in Callers |-> NoTool]
    /\ lastEvent = NoEvent
    /\ notion = NoNotion
    /\ llm \in {"None", "model"}
    /\ chat = [r \in Requests |-> NoChat]

NextChat ==
    \/ \E r \in Requests : ChatReceive(r)
    \/ \E r \in Requests : JsonDone(r)
    \/ \E r \in Requests : LoadDone(r)
    \/ \E r \in Requests : AgentDone(r)
    \/ \E r \in Requests : CleanupDone(r)

SpecChat == InitChat /\ [][NextChat]_vars

\* The program under fair scheduling.  The executor finishes every job it
\* is given, with a result or an exception, and the event loop then resumes
\* the coroutine that awaits it (lines 87, 109, 134): weak fairness of the
\* three completions.  asyncio.Lock wakes a waiter each time it is released
\* and the event loop runs every coroutine that is ready: a caller waiting
\* at line 60 gets the lock if it is free again and again, which is strong
\* fairness of Enter.  Nothing obliges a call to be issued or time to pass.
Fairness ==
    \A c \in Callers :
        /\ SF_vars(Enter(c))
        /\ WF_vars(RefreshDone(c))
        /\ WF_vars(AuthorizeDone(c))
        /\ WF_vars(BuildDone(c))

SpecLive == Init /\ [][Next]_vars /\ Fairness

\* The program with add_google_calendar_event as the caller of
\* _get_google_calendar_service.
NextEvent ==
    \/ \E c \in Callers : AddEvent(c)
    \/ \E c \in Callers : Enter(c)
    \/ \E c \in Callers : RefreshDone(c)
    \/ \E c \in Callers : AuthorizeDone(c)
    \/ \E c \in Callers : BuildDone(c)
    \/ \E c \in Callers : InsertDone(c)
    \/ Tick

SpecEvent == Init /\ [][NextEvent]_vars

\* ------------------------------------------------------------------ claims
\* A step in which a call returns: `last` becomes that call's record.
Returns == last'.trace.callNo # last.trace.callNo
\* Some call has returned.
Returned == last.trace.callNo # 0
\* The record a call loaded from the token file it found at line 73.
Loaded(l) == from_authorized_user_file(l.trace.entryFile)
\* Refresh exchanges and consent flows started by a call.
Sequences(l) == l.trace.refreshes + l.trace.flows

\* C1: at every moment at most one caller is inside the section guarded by
\* _service_lock (suspended in the refresh, the consent flow or the client
\* build), whatever the number of callers waiting, and the lock is held
\* exactly while some caller is inside.
C1_MutualExclusion ==
    /\ Cardinality({c \in Callers : pc[c] \in InSection}) <= 1
    /\ service_lock <=> (\E c \in Callers : pc[c] \in InSection)

\* C1 witness: one caller is suspended in the section while another waits.
C1_Witness ==
    \E c, d \in Callers : pc[c] \in InSection /\ pc[d] = "waiting"

\* Two calls were in flight at the same time.
Concurrent(l, m) ==
    \/ l.trace.callNo \in m.trace.peers
    \/ m.trace.callNo \in l.trace.peers

\* C2: of two concurrent calls issued while no client was cached, at most
\* one runs a refresh exchange or a consent flow, and both get the same
\* result: the same client object or both the failure.
C2_SingleFlight ==
    [][(/\ Returns
        /\ Returned
        /\ Concurrent(last, last')
        /\ last.trace.noCacheAtCall
        /\ last'.trace.noCacheAtCall)
       => (/\ last'.ret = last.ret
           /\ Sequences(last) + Sequences(last') <= 1)]_vars

\* C3: a call that finds a cached client whose credentials are valid when it
\* enters the section returns that same client and touches neither the
\* filesystem nor the network (no refresh, no flow, no client build).
C3_FastPath ==
    last.trace.entryCache # NoHandle
    => (/\ last.ret = last.trace.entryCache
        /\ ~last.trace.fs
        /\ Sequences(last) = 0
        /\ last.trace.builds = 0)

\* C4 as claimed: a call that finds a valid record in the token file returns
\* a client bound to that record and starts neither a refresh nor a flow.
C4_Original ==
    last.trace.entryValid
    => (/\ last.ret # NoHandle
        /\ last.ret.creds = Loaded(last)
        /\ Sequences(last) = 0)

\* C4 as amended: a call that finds a valid record in the token file starts
\* neither a refresh nor a flow; it returns a client bound to that record
\* when the client secret file exists and the client build succeeds, and the
\* failure result otherwise.
C4_ValidRecordNoNetwork ==
    last.trace.entryValid
    => (/\ Sequences(last) = 0
        /\ last.exc = "none"
        /\ last.ret # NoHandle => last.ret.creds = Loaded(last)
        /\ last.ret = NoHandle <=>
              (~SecretFound \/ last.trace.buildFailed))

\* C4 witness: a call found a valid record and returned a client bound to it.
C4_Witness ==
    /\ last.trace.entryValid
    /\ last.ret # NoHandle
    /\ last.ret.creds = Loaded(last)

\* The call refreshed an expired record of the token file and the exchange
\* returned a token with a future expiry.
RefreshSucceeded(l, t) ==
    /\ l.trace.refreshed # NoCreds
    /\ ValidAt(l.trace.refreshed, t)

\* C5 as claimed: when a call whose refresh succeeded returns, the returned
\* and cached client is bound to the new token, the token file holds exactly
\* the refreshed record (new token and expiry, same refresh token), and one
\* refresh was made.
C5_Original ==
    [][(Returns /\ RefreshSucceeded(last', now'))
       => (/\ last'.ret # NoHandle
           /\ last'.ret.creds = last'.trace.refreshed
           /\ google_service' = last'.ret
           /\ last'.trace.refreshed.token # last'.trace.entryFile.token
           /\ last'.trace.refreshed.refresh = last'.trace.entryFile.refresh
           /\ tokenFile' = to_json(last'.trace.refreshed)
           /\ last'.trace.refreshes = 1)]_vars

\* C5 as amended: when a call whose refresh succeeded returns, one refresh
\* and no flow was made; the refreshed record has a new token and the same
\* refresh token; the token file holds exactly that record provided the write
\* succeeded; the call returns a client provided the client build succeeded,
\* and that client is cached and bound to the new token.
C5_RefreshPersisted ==
    [][(Returns /\ RefreshSucceeded(last', now'))
       => (/\ last'.trace.refreshes = 1
           /\ last'.trace.flows = 0
           /\ last'.trace.refreshed.token # last'.trace.entryFile.token
           /\ last'.trace.refreshed.refresh = last'.trace.entryFile.refresh
           /\ ~last'.trace.writeFailed
                => tokenFile' = to_json(last'.trace.refreshed)
           /\ last'.ret = NoHandle <=> last'.trace.buildFailed
           /\ last'.ret # NoHandle
                => (/\ last'.ret.creds = last'.trace.refreshed
                    /\ google_service' = last'.ret))]_vars

\* C5 witness: a call refreshed the record, wrote it and returned a client.
C5_Witness ==
    /\ RefreshSucceeded(last, now)
    /\ ~last.trace.writeFailed
    /\ last.ret # NoHandle
    /\ tokenFile = to_json(last.trace.refreshed)

\* C6 as claimed: after a failed refresh the token file does not exist when
\* the consent flow begins, nor when the call returns the failure result.
C6_Original ==
    [][/\ \A c \in Callers :
            (trace'[c].refreshFailed /\ trace'[c].flows = 1)
            => trace'[c].flowFile = "absent"
       /\ (Returns /\ last'.trace.refreshFailed /\ last'.ret = NoHandle)
            => tokenFile' = AbsentFile]_vars

\* C6 as amended: after a failed refresh the call tries to remove the token
\* file.  When the removal succeeds, the file does not exist when the consent
\* flow begins, and when the call returns the file is absent unless the flow
\* succeeded and the call wrote, or began to write, the new record: the stale
\* record is not in the store.  When the removal fails, the stale file is
\* still in place when the consent flow begins.
C6_StaleRecordRemoved ==
    [][/\ \A c \in Callers :
            (trace'[c].refreshFailed /\ trace'[c].flows = 1)
            => (trace'[c].flowFile = "absent" <=> ~trace'[c].removeFailed)
       /\ (Returns /\ last'.trace.refreshFailed /\ ~last'.trace.removeFailed)
            => (/\ tokenFile' # last'.trace.entryFile
                /\ last'.trace.fresh = NoCreds => tokenFile' = AbsentFile
                /\ last'.trace.fresh # NoCreds
                     => tokenFile' \in {AbsentFile, GarbageFile,
                                        to_json(last'.trace.fresh)})]_vars

\* C6 witness: a refresh failed, the file was removed, the flow failed and
\* the call returned the failure result with no token file left.
C6_Witness ==
    /\ last.trace.refreshFailed
    /\ ~last.trace.removeFailed
    /\ last.trace.flows = 1
    /\ last.ret = NoHandle
    /\ tokenFile = AbsentFile

\* C7: when the client secret file is missing or its path is not configured,
\* every call returns the failure result and starts neither a refresh nor a
\* flow, whatever the token file holds; no caller ever gets past line 68.
C7_NoSecretNoNetwork ==
    secret \in {"unconfigured", "missing"}
    => (/\ \A c \in Callers : pc[c] \notin InSection
        /\ Returned
             => (/\ last.ret = NoHandle
                 /\ last.exc = "none"
                 /\ Sequences(last) = 0
                 /\ last.trace.builds = 0))

\* C7 witness: without a client secret, a call that found an expired record
\* with a refresh token has returned.
C7_Witness ==
    /\ secret = "missing"
    /\ Returned
    /\ NeedsRefresh(Loaded(last))

\* C8: when a call obtained a valid fresh record (by refresh or by the flow)
\* and writing it to the token file failed, the call still returns a client
\* bound to that record, provided the client build succeeded.
C8_WriteFailureNotFatal ==
    [][(/\ Returns
        /\ last'.trace.writeFailed
        /\ ValidAt(last'.trace.fresh, now')
        /\ ~last'.trace.buildFailed)
       => (/\ last'.ret # NoHandle
           /\ last'.ret.creds = last'.trace.fresh
           /\ last'.exc = "none")]_vars

\* C8 witness: a call whose write failed returned a client.
C8_Witness ==
    /\ last.trace.writeFailed
    /\ last.ret # NoHandle
    /\ last.ret.creds = last.trace.fresh

\* The record a call ends with: the fresh one if it obtained one, else the
\* one it loaded.
FinalRecord(l) ==
    IF l.trace.fresh # NoCreds THEN l.trace.fresh ELSE Loaded(l)

C10_NoExceptionEscapes == last.exc = "none"

\* C10 witness: a call whose client build raised returned the failure result.
C10_Witness ==
    /\ Returned
    /\ last.trace.buildFailed
    /\ last.ret = NoHandle
    /\ last.exc = "none"

\* A returned call that gave its caller the failure result.
Failed(l) == l.trace.callNo # 0 /\ l.ret = NoHandle
\* What the caller of a returned call can observe of it.
Observed(l) == <<l.ret, l.exc>>
\* Why a failed call failed, among the causes of lines 65-116: no client
\* secret file, a refresh exchange that failed, a consent flow that failed.
FailureCause(l) ==
    CASE ~SecretFound -> "configuration"
      [] l.trace.refreshFailed -> "refresh"
      [] l.trace.flows = 1 /\ l.trace.fresh = NoCreds -> "flow"
      [] OTHER -> "other"

\* C11: failed calls are distinguishable by cause: two calls that failed for
\* different causes (missing client secret, failed refresh, failed consent
\* flow) give their callers different results.
C11_FailuresDistinct ==
    [][(/\ Returns
        /\ Failed(last)
        /\ Failed(last')
        /\ "other" \notin {FailureCause(last), FailureCause(last')}
        /\ FailureCause(last) # FailureCause(last'))
       => Observed(last') # Observed(last)]_vars

\* The call of caller c has written its fresh record to the token file.
Persisted(tr) == tr.fresh # NoCreds /\ tr.writeTried /\ ~tr.writeFailed
\* A record as it is read back: the expiry up to the second.
Truncated(cr) == [cr EXCEPT !.frac = 0]

C13_InsertAfterAcquire ==
    /\ \A c \in Callers :
         tool[c].phase = "inserting"
         => (/\ tool[c].acquired # NoHandle
             /\ tool[c].service = tool[c].acquired
             /\ tool[c].service.id = tool[c].no)
    /\ lastEvent.inserts >= 1 => lastEvent.auth
    /\ (lastEvent.no # 0 /\ ~lastEvent.auth)
         => (/\ lastEvent.inserts = 0
             /\ lastEvent.result = "auth_error"
             /\ lastEvent.exc = "none")

\* C13 witness: an invocation awaits its insert call with the client that
\* its call of _get_google_calendar_service returned.
C13_Witness ==
    \E c \in Callers :
        /\ tool[c].phase = "inserting"
        /\ tool[c].service # NoHandle
        /\ tool[c].service = last.ret

\* The string of the time one hour after that of a datetime string.
HourLater(str) ==
    IF str.hour + 1 < HoursPerDay
    THEN [str EXCEPT !.hour = @ + 1]
    ELSE [str EXCEPT !.day = @ + 1, !.hour = 0]

\* C14: with the end omitted, a start that carries a time gives a timed
\* event that ends one hour after its start, and a start that is a date gives
\* an all-day event of one day: 'date' fields, the end being the next day.
C14_DefaultEnd ==
    \A c \in Callers :
        (tool[c].phase = "inserting" /\ tool[c].end = NoString)
        => IF tool[c].start.kind = "date"
           THEN /\ tool[c].event.start.key = "date"
                /\ tool[c].event.start.value = tool[c].start
                /\ tool[c].event.end.key = "date"
                /\ tool[c].event.end.value = DateString(tool[c].start.day + 1)
           ELSE /\ tool[c].event.start.key = "dateTime"
                /\ tool[c].event.start.value = tool[c].start
                /\ tool[c].event.end.key = "dateTime"
                /\ tool[c].event.end.value = HourLater(tool[c].start)

\* C15: every invocation of add_google_calendar_event ends with one of its
\* strings, the confirmation or an error message, and never with an
\* exception.
C15_AlwaysReturnsString ==
    lastEvent.no # 0
    => (/\ lastEvent.exc = "none"
        /\ lastEvent.result \in {"created", "auth_error", "format_error",
                                 "api_error", "unexpected_error"})

\* C16 as claimed: a call whose refresh failed goes on to the consent flow,
\* returns the failure result only if the flow failed too, and returns a
\* client if the flow gave a valid record.
C16_Original ==
    [][(Returns /\ last'.trace.refreshFailed)
       => (/\ last'.trace.flowTried
           /\ last'.ret = NoHandle => last'.trace.fresh = NoCreds
           /\ ValidAt(last'.trace.fresh, now') => last'.ret # NoHandle)]_vars

\* C16 as amended: a call whose refresh failed goes on to the consent flow,
\* whether or not the stale file could be removed, and makes no second
\* refresh; it returns a client, bound to the record of the flow, exactly
\* when the flow gave a valid record and the client build succeeded, and
\* the failure result otherwise; no exception leaves the call.
C16_RefreshFailureFallsThrough ==
    [][(Returns /\ last'.trace.refreshFailed)
       => (/\ last'.trace.flowTried
           /\ last'.trace.refreshes = 1
           /\ last'.exc = "none"
           /\ last'.ret # NoHandle
                <=> (ValidAt(last'.trace.fresh, now')
                     /\ ~last'.trace.buildFailed)
           /\ last'.ret # NoHandle
                => last'.ret.creds = last'.trace.fresh)]_vars

\* C16 witness: a call whose refresh failed ran the consent flow and
\* returned a client bound to the record of the flow.
C16_Witness ==
    /\ last.trace.refreshFailed
    /\ last.trace.flows = 1
    /\ last.ret # NoHandle
    /\ last.ret.creds = last.trace.fresh

\* C17: a call that obtained a fresh record has tried to write it to the
\* token file before it starts the client build, before it returns a client
\* and before it caches one.
C17_PersistBeforePublish ==
    /\ \A c \in Callers :
         (pc[c] = "building" /\ trace[c].fresh # NoCreds)
         => trace[c].writeTried
    /\ (last.ret # NoHandle /\ last.trace.fresh # NoCreds)
         => last.trace.writeTried
    /\ (/\ google_service # NoHandle
        /\ google_service.id = last.trace.callNo
        /\ last.trace.fresh # NoCreds)
         => last.trace.writeTried

\* C17 witness: a caller is suspended in the build of the client for a fresh
\* record; the record is in the token file and no client is cached yet.
C17_Witness ==
    \E c \in Callers :
        /\ pc[c] = "building"
        /\ Persisted(trace[c])
        /\ tokenFile = to_json(trace[c].fresh)
        /\ google_service = NoHandle

\* The call found a token file that cannot be parsed, the client secret
\* being in place.
FoundGarbage(tr) ==
    tr.entered /\ tr.entryFile.kind = "garbage" /\ SecretFound

\* C18: a call that finds an unparseable token file makes no refresh and
\* goes on to the consent flow, as for an absent file; no exception leaves
\* the call, and it returns a client when the flow gives a valid record and
\* the build succeeds.
C18_UnparseableLikeAbsent ==
    /\ \A c \in Callers :
         (FoundGarbage(trace[c]) /\ pc[c] # "waiting")
         => (trace[c].refreshes = 0 /\ trace[c].flowTried)
    /\ FoundGarbage(last.trace)
         => (/\ last.trace.refreshes = 0
             /\ last.trace.flowTried
             /\ last.exc = "none"
             /\ last.ret = NoHandle
                  => (\/ last.trace.fresh = NoCreds
                      \/ last.trace.buildFailed
                      \/ ExpiredAt(last.trace.fresh, now)))

\* C18 witness: a call found an unparseable file, ran the flow and returned
\* a client.
C18_Witness ==
    /\ FoundGarbage(last.trace)
    /\ last.trace.flows = 1
    /\ last.ret # NoHandle

\* The call found no token file, or one with a record that is not valid and
\* has no refresh token, the client secret being in place.
FoundUnrefreshable(tr) ==
    /\ tr.entered
    /\ SecretFound
    /\ \/ tr.entryFile.kind = "absent"
       \/ /\ tr.entryFile.kind = "record"
          /\ ~tr.entryValid
          /\ tr.entryFile.refresh = NONE

\* C19: a call that finds no token file, or a record that is not valid and
\* has no refresh token, goes to the consent flow without a refresh; a call
\* makes a refresh only for a loaded record that is expired and has a
\* refresh token.
C19_RefreshOnlyIfRefreshable ==
    \A tr \in {trace[c] : c \in Callers} \cup {last.trace} :
        /\ (FoundUnrefreshable(tr) /\ tr # NoTrace)
             => (tr.refreshes = 0 /\ tr.flowTried)
        /\ tr.refreshes >= 1
             => (/\ tr.entryFile.kind = "record"
                 /\ tr.entryFile.refresh # NONE
                 /\ ExpiredAt(from_authorized_user_file(tr.entryFile), now))

\* C19 witness: a call found an expired record with no refresh token, ran
\* the flow without a refresh and returned a client.
C19_Witness ==
    /\ FoundUnrefreshable(last.trace)
    /\ last.trace.entryFile.kind = "record"
    /\ last.trace.refreshes = 0
    /\ last.trace.flows = 1
    /\ last.ret # NoHandle

\* C20: a call starts at most one refresh and at most one consent flow.
C20_AtMostOneEach ==
    \A tr \in {trace[c] : c \in Callers} \cup {last.trace} :
        tr.refreshes <= 1 /\ tr.flows <= 1

\* C20 witness: a call made one refresh, which failed, and then one flow.
C20_Witness ==
    /\ last.trace.refreshes = 1
    /\ last.trace.refreshFailed
    /\ last.trace.flows = 1

\* C21 as claimed: once a call's refresh with the record of the token file
\* has failed, no later call makes a refresh with that same record, whether
\* or not the file could be removed.
C21_Original ==
    \A c \in Callers :
        (/\ last.trace.refreshFailed
         /\ trace[c].entered
         /\ trace[c].entryFile = last.trace.entryFile)
        => trace[c].refreshes = 0

\* C21 as amended: once a call's refresh with the record of the token file
\* has failed and the call has removed the file, the next call does not
\* find that record and makes no refresh with it, whatever the outcome of
\* the consent flow in between.
C21_StaleNotRetried ==
    \A c \in Callers :
        (/\ last.trace.refreshFailed
         /\ ~last.trace.removeFailed
         /\ trace[c].entered)
        => (/\ trace[c].entryFile # last.trace.entryFile
            /\ trace[c].refreshes >= 1
                 => trace[c].entryFile.token # last.trace.entryFile.token)

\* C21 witness: a call's refresh failed, the file was removed and the flow
\* failed; the next call found no file and went to the flow with no refresh.
C21_Witness ==
    \E c \in Callers :
        /\ last.trace.refreshFailed
        /\ ~last.trace.removeFailed
        /\ last.ret = NoHandle
        /\ pc[c] = "authorizing"
        /\ trace[c].entryFile = AbsentFile
        /\ trace[c].refreshes = 0

\* Caller c takes a step of _get_google_calendar_service holding the lock:
\* it resumes inside the section, or it takes the free lock at line 60, and
\* no other caller is inside the section.
StepsInSection(c) ==
    /\ pc'[c] # pc[c]
    /\ \/ pc[c] \in InSection
       \/ pc[c] = "waiting" /\ ~service_lock
    /\ \A d \in Callers \ {c} : pc[d] \notin InSection /\ pc'[d] = pc[d]

\* C23: the cached client and the token file change (cache assigned or
\* cleared, file written or removed) only in a step that a caller takes
\* inside _get_google_calendar_service while it holds the lock; no step of
\* another kind (a call being issued, time passing, a caller waiting)
\* changes either.
C23_SoleMutator ==
    [][(google_service' # google_service \/ tokenFile' # tokenFile)
       => \E c \in Callers : StepsInSection(c)]_vars

\* C23 witness: of two calls in flight together, one has written the token
\* file and assigned the cache.
C23_Witness ==
    /\ last.ret # NoHandle
    /\ last.trace.peers # {}
    /\ Persisted(last.trace)
    /\ google_service = last.ret
    /\ tokenFile = to_json(last.trace.fresh)
    /\ tokenFile # last.trace.entryFile

\* The trace of caller c's call after a step of c, returned or not.
TraceAfter(c) == IF pc'[c] = "idle" THEN last'.trace ELSE trace'[c]

\* C27: the token file changes only in a step of a call that has obtained a
\* record from a refresh or a flow and writes it (the file becomes that
\* record, or is left empty by a failed write), or of a call whose refresh
\* failed and that removes it; a call that loaded a valid record and a call
\* that failed at the client secret check return with the file as they
\* found it.
C27_FileFrame ==
    [][/\ tokenFile' # tokenFile
          => \E c \in Callers :
                /\ pc'[c] # pc[c]
                /\ \/ /\ TraceAfter(c).fresh # NoCreds
                      /\ TraceAfter(c).writeTried
                      /\ tokenFile' \in {to_json(TraceAfter(c).fresh),
                                         GarbageFile}
                   \/ /\ TraceAfter(c).refreshFailed
                      /\ ~TraceAfter(c).removeFailed
                      /\ TraceAfter(c).fresh = NoCreds
                      /\ tokenFile' = AbsentFile
       /\ (/\ Returns
           /\ last'.trace.entered
           /\ last'.trace.entryValid \/ ~SecretFound)
          => tokenFile' = last'.trace.entryFile]_vars

\* C27 witness: a call whose refresh failed removed the file, and its flow
\* succeeded and wrote the new record.
C27_Witness ==
    /\ last.trace.refreshFailed
    /\ ~last.trace.removeFailed
    /\ Persisted(last.trace)
    /\ tokenFile = to_json(last.trace.fresh)

\* A returned call failed at the client secret check of line 65.
FailedAtSecret(l) == l.trace.entered /\ ~SecretFound
\* A returned call failed because the flow could not be built or raised
\* (lines 111-116).
FailedAtFlow(l) ==
    /\ Failed(l)
    /\ SecretFound
    /\ l.trace.flowTried
    /\ l.trace.fresh = NoCreds

\* C28: the cache changes only in the step in which a call returns; a call
\* that fails at the client secret check or because the flow raised leaves
\* the cache as it was; a call that fails because its final record is not
\* valid or because the client build raised leaves the cache empty; a
\* successful call leaves in the cache the client it returns.
C28_CacheFrame ==
    [][/\ ~Returns => google_service' = google_service
       /\ (Returns /\ (FailedAtSecret(last') \/ FailedAtFlow(last')))
            => google_service' = google_service
       /\ (/\ Returns
           /\ Failed(last')
           /\ ~FailedAtSecret(last')
           /\ ~FailedAtFlow(last'))
            => (/\ google_service' = NoHandle
                /\ \/ last'.trace.buildFailed
                   \/ /\ last'.trace.builds = 0
                      /\ ~ValidAt(FinalRecord(last'), now))
       /\ (Returns /\ ~Failed(last'))
            => google_service' = last'.ret]_vars

\* C28 witness: a call failed because its flow raised while a client was
\* cached, and the cache still holds that client.
C28_Witness ==
    /\ FailedAtFlow(last)
    /\ last.trace.flows = 1
    /\ google_service # NoHandle

\* C25: with a date as start (day D) and a date as end (day E), the event
\* inserted is an all-day event whose exclusive end date is E when E > D (it
\* covers the days D .. E-1) and D + 1 when E = D (one day).
C25_AllDayEnd ==
    \A c \in Callers :
        (/\ tool[c].phase = "inserting"
         /\ tool[c].start.kind = "date"
         /\ tool[c].end.kind = "date"
         /\ tool[c].end.day >= tool[c].start.day)
        => (/\ tool[c].event.start.key = "date"
            /\ tool[c].event.start.value = tool[c].start
            /\ tool[c].event.end.key = "date"
            /\ tool[c].event.end.value =
                  IF tool[c].end.day > tool[c].start.day
                  THEN tool[c].end
                  ELSE DateString(tool[c].start.day + 1))

\* The end of an event body is strictly after its start, read back from the
\* strings of the body: by at least a day for 'date' fields, as instants
\* for 'dateTime' fields.
EndsAfterStart(event) ==
    /\ event.start.key = event.end.key
    /\ event.start.key \in {"date", "dateTime"}
    /\ event.start.key = "date"
         => date_fromisoformat(event.end.value).t
               >= date_fromisoformat(event.start.value).t + 1
    /\ event.start.key = "dateTime"
         => (/\ Comparable(datetime_fromisoformat(event.end.value),
                           datetime_fromisoformat(event.start.value))
             /\ After(datetime_fromisoformat(event.end.value),
                      datetime_fromisoformat(event.start.value)))

\* C26: every event passed to the insert call ends strictly after it
\* starts, whatever the end argument: omitted, unparseable, a date where the
\* start has a time or the reverse, equal to the start or before it.
C26_EndAfterStart ==
    \A c \in Callers :
        tool[c].phase = "inserting" => EndsAfterStart(tool[c].event)

\* C26 witness: an insert is awaited for an end argument that is not after
\* the start; the event ends one hour after its start.
C26_Witness ==
    \E c \in Callers :
        /\ tool[c].phase = "inserting"
        /\ tool[c].end.kind = "naive"
        /\ tool[c].start.kind = "naive"
        /\ tool[c].end.day < tool[c].start.day
        /\ tool[c].event.end.value = HourLater(tool[c].start)

\* C29 as claimed: an invocation with an unparseable start string has made
\* its call of _get_google_calendar_service, makes no insert call and
\* returns the invalid-format error.
C29_Original ==
    (lastEvent.no # 0 /\ ~lastEvent.parsed)
    => (/\ last.trace.callNo >= lastEvent.no
        /\ lastEvent.inserts = 0
        /\ lastEvent.result = "format_error")

\* C29 as amended: an invocation with an unparseable start string has made
\* its call of _get_google_calendar_service, with whatever refresh, flow and
\* file operation the call entails, before the string is looked at; it makes
\* no insert call, and returns the invalid-format error when the call gave
\* a client and the authentication error when it did not.  No insert call is
\* awaited for an unparseable start string.
C29_AcquireBeforeValidate ==
    /\ (lastEvent.no # 0 /\ ~lastEvent.parsed)
         => (/\ last.trace.callNo >= lastEvent.no
             /\ last.trace.entered
             /\ lastEvent.inserts = 0
             /\ lastEvent.exc = "none"
             /\ lastEvent.result =
                   IF lastEvent.auth THEN "format_error" ELSE "auth_error"
             /\ last.trace.callNo = lastEvent.no
                  => (lastEvent.auth <=> last.ret # NoHandle))
    /\ \A c \in Callers :
          tool[c].phase = "inserting" => tool[c].start.kind # "garbage"

\* C29 witness: an invocation with an unparseable start string returned the
\* invalid-format error after its call ran the consent flow and wrote the
\* token file.
C29_Witness ==
    /\ lastEvent.no # 0
    /\ ~lastEvent.parsed
    /\ lastEvent.result = "format_error"
    /\ last.trace.callNo = lastEvent.no
    /\ last.trace.flows = 1
    /\ Persisted(last.trace)
    /\ tokenFile = to_json(last.trace.fresh)

\* C24: under the fairness of SpecLive every call of
\* _get_google_calendar_service that has been issued returns, and when it
\* returns it has released the lock: no caller waits at line 60 for ever,
\* whatever the order in which the waiting callers get the lock.
C24_EveryCallReturns ==
    \A c \in Callers :
        (pc[c] # "idle") ~> (pc[c] = "idle" /\ ~service_lock)

\* C24 witness: a call issued while another was in flight has returned
\* after it, and every caller is outside the function with the lock free.
C24_Witness ==
    /\ last.trace.callNo = MaxCalls
    /\ last.trace.peers # {}
    /\ last.trace.entered
    /\ \A c \in Callers : pc[c] = "idle"
    /\ ~service_lock

C30_CleanupOnce ==
    \A r \in Requests :
        /\ chat[r].cleanups <= 1
        /\ chat[r].invoked <= 1
        /\ chat[r].status # 0 <=> chat[r].pc = "done"
        /\ (/\ chat[r].pc = "done"
            /\ chat[r].loaded = "ok"
            /\ chat[r].cleanup_func # NONE)
             => (chat[r].cleanups = 1 /\ chat[r].status \in {200, 500})
        /\ chat[r].cleanups = 1
             => (chat[r].loaded = "ok" /\ chat[r].cleanup_func # NONE)
        /\ chat[r].invoked = 1
             => (/\ llm # "None"
                 /\ chat[r].body = "ok"
                 /\ chat[r].loaded = "ok")
        /\ chat[r].status \in {400, 503} => chat[r].invoked = 0

\* C30 witness: the agent of a request raised, the cleanup function was
\* called once and the response, 500, is returned.
C30_Witness ==
    \E r \in Requests :
        /\ chat[r].pc = "done"
        /\ chat[r].agent = "raises"
        /\ chat[r].invoked = 1
        /\ chat[r].cleanups = 1
        /\ chat[r].status = 500

\* ------------------------------------------------------------ type invariant
TypeOK ==
    /\ now \in 1..MaxTime
    /\ secret \in SecretStates
    /\ tokenFile.kind \in {"absent", "garbage", "record"}
    /\ service_lock \in BOOLEAN
    /\ \A c \in Callers : pc[c] \in {"idle"} \cup InFlight
    /\ calls \in 0..MaxCalls
    /\ \A c \in Callers : tool[c].phase \in {"none", "auth", "inserting"}
    /\ lastEvent.inserts \in 0..1
    /\ notion.pc \in {"idle", "updating"}
    /\ llm \in {"None", "model"}
    /\ \A r \in Requests :
          chat[r].pc \in {"none", "json", "loading", "invoking", "cleanup",
                          "done"}

====
